---------------------------- MODULE Spec2Model ----------------------------
(***************************************************************************)
(* A model of the Gemini <-> Antigravity protocol adapter:                 *)
(*   src/src/utils/geminiAdapter.js  (the adapter)                         *)
(*   src/src/utils/logger.js         (lines 68-202: an earlier copy of the *)
(*                                    adapter, exported under the same     *)
(*                                    names, without the sanitizer)        *)
(*                                                                         *)
(* JavaScript values are tagged records, the payload under a field of the  *)
(* type's own.  An object is an ORDERED sequence                           *)
(* of <<key, value>> pairs (insertion order, as JSON.stringify sees it).   *)
(* A thrown TypeError / SyntaxError is the value Throw.                    *)
(* A line of text is a sequence of one-character strings, except that the  *)
(* content between two double quotes of a JSON string is one atom.         *)
(***************************************************************************)
EXTENDS Integers, Sequences, FiniteSets, TLC

VARIABLES
  config,    \* the configuration module's object (read-only to the adapter)
  input,     \* the call under way: the exported function and its arguments
  result,    \* what the call returned (Throw: it raised)
  pc,        \* "ready": the call is to be made; "done": it has returned;
             \* "streaming": lines of several streams are being fed
  fed,       \* per stream, the lines given to transformStreamLine so far
  emitted    \* per stream, what transformStreamLine returned for each line

vars == <<config, input, result, pc, fed, emitted>>

(***************************************************************************)
(* JavaScript values                                                       *)
(***************************************************************************)
Undefined == [t |-> "undefined"]
Null == [t |-> "null"]
Throw == [t |-> "throw"]
Bool(b) == [t |-> "bool", b |-> b]
Num(n) == [t |-> "num", n |-> n]
Str(s) == [t |-> "str", s |-> s]
Arr(s) == [t |-> "arr", a |-> s]
Obj(p) == [t |-> "obj", o |-> p]
\* A string held as its text (a line of a stream): the sequence of its
\* characters.
Text(s) == [t |-> "text", c |-> s]

IsObj(x) == x.t = "obj"
\* Array.isArray(x)
IsArray(x) == x.t = "arr"
\* typeof x === 'object'   (null, arrays and objects)
TypeofObject(x) == x.t \in {"null", "arr", "obj"}
\* x == null  (the test behind ?? and behind a property access that throws)
Nullish(x) == x.t \in {"undefined", "null"}

\* ToBoolean(x): what `if (x)`, `!x`, `x || y`, `x ? a : b` test.
Truthy(x) ==
  CASE x.t \in {"undefined", "null"} -> FALSE
    [] x.t = "bool" -> x.b
    [] x.t = "num" -> x.n # 0
    [] x.t = "str" -> x.s # ""
    [] OTHER -> TRUE

\* a ?? b
Coalesce(a, b) == IF Nullish(a) THEN b ELSE a
\* a || b
OrElse(a, b) == IF Truthy(a) THEN a ELSE b

Keys(p) == {p[i][1] : i \in 1..Len(p)}
HasKey(p, k) == \E i \in 1..Len(p) : p[i][1] = k
Lookup(p, k) == p[CHOOSE i \in 1..Len(p) : p[i][1] = k][2]

\* x.k : a TypeError on null and undefined; undefined when x has no own
\* property k (the keys read by the adapter are never array indices nor
\* properties of the primitive wrappers).
Get(x, k) ==
  IF Nullish(x) \/ x = Throw THEN Throw
  ELSE IF IsObj(x) /\ HasKey(x.o, k) THEN Lookup(x.o, k)
  ELSE Undefined

\* p with property k set to val: an existing key keeps its place, a new key
\* goes last.
SetKey(p, k, val) ==
  IF HasKey(p, k)
  THEN [i \in 1..Len(p) |-> IF p[i][1] = k THEN <<k, val>> ELSE p[i]]
  ELSE Append(p, <<k, val>>)

RECURSIVE SetAll(_, _)
\* p after setting every pair of q, in q's order.
SetAll(p, q) ==
  IF q = <<>> THEN p ELSE SetAll(SetKey(p, q[1][1], q[1][2]), Tail(q))

RECURSIVE Without(_, _)
\* p without the keys in ks (the `...rest` of a destructuring pattern).
Without(p, ks) ==
  IF p = <<>> THEN <<>>
  ELSE IF p[1][1] \in ks THEN Without(Tail(p), ks)
  ELSE <<p[1]>> \o Without(Tail(p), ks)

DigitChars == <<"0", "1", "2", "3", "4", "5", "6", "7", "8", "9">>
IsDigit(c) == \E i \in 1..10 : DigitChars[i] = c
DigitVal(c) == (CHOOSE i \in 1..10 : DigitChars[i] = c) - 1

RECURSIVE NatChars(_)
\* The decimal digits of a natural number.
NatChars(n) ==
  IF n < 10 THEN <<DigitChars[n + 1]>>
  ELSE NatChars(n \div 10) \o <<DigitChars[(n % 10) + 1]>>

\* The own enumerable properties `{...x}` copies: an object's pairs, an
\* array's elements under their indices, nothing for null, undefined,
\* numbers and booleans.  (Spreading a non-empty string copies its
\* characters; no input of the model spreads one.)
SpreadEntries(x) ==
  CASE x.t = "obj" -> x.o
    [] x.t = "arr" -> [i \in 1..Len(x.a) |-> <<NatChars(i - 1)[1], x.a[i]>>]
    [] OTHER -> <<>>

(***************************************************************************)
(* JSON.stringify and JSON.parse over lines of text                        *)
(***************************************************************************)
Quote == "\""
NullChars == <<"n", "u", "l", "l">>
TrueChars == <<"t", "r", "u", "e">>
FalseChars == <<"f", "a", "l", "s", "e">>
UndefinedChars == <<"u", "n", "d", "e", "f", "i", "n", "e", "d">>

RECURSIVE StringifyValue(_), StringifyElements(_), StringifyMembers(_, _)
\* JSON.stringify of a value inside a document: an array element that is
\* undefined is written null.
StringifyValue(x) ==
  CASE x.t = "undefined" -> NullChars
    [] x.t = "null" -> NullChars
    [] x.t = "bool" -> (IF x.b THEN TrueChars ELSE FalseChars)
    [] x.t = "num" -> (IF x.n < 0 THEN <<"-">> \o NatChars(0 - x.n) ELSE NatChars(x.n))
    [] x.t = "str" -> <<Quote, x.s, Quote>>
    [] x.t = "arr" -> <<"[">> \o StringifyElements(x.a) \o <<"]">>
    [] x.t = "obj" -> <<"{">> \o StringifyMembers(x.o, TRUE) \o <<"}">>

StringifyElements(s) ==
  IF s = <<>> THEN <<>>
  ELSE IF Len(s) = 1 THEN StringifyValue(s[1])
  ELSE StringifyValue(s[1]) \o <<",">> \o StringifyElements(Tail(s))

\* The members of an object, in insertion order; a property whose value is
\* undefined is left out.
StringifyMembers(p, first) ==
  IF p = <<>> THEN <<>>
  ELSE IF p[1][2].t = "undefined" THEN StringifyMembers(Tail(p), first)
  ELSE (IF first THEN <<>> ELSE <<",">>)
       \o <<Quote, p[1][1], Quote, ":">> \o StringifyValue(p[1][2])
       \o StringifyMembers(Tail(p), FALSE)

\* JSON.stringify(x), as `${...}` then renders it: the text undefined for
\* the value undefined.
JSONstringify(x) ==
  IF x.t = "undefined" THEN UndefinedChars ELSE StringifyValue(x)

ParseFail == [ok |-> FALSE, val |-> Null, next |-> 0]
ParseOk(x, i) == [ok |-> TRUE, val |-> x, next |-> i]

RECURSIVE SkipWs(_, _)
SkipWs(s, i) == IF i <= Len(s) /\ s[i] = " " THEN SkipWs(s, i + 1) ELSE i

\* The text w stands at position i of s.
Matches(s, i, w) ==
  i + Len(w) - 1 <= Len(s) /\ SubSeq(s, i, i + Len(w) - 1) = w

RECURSIVE ParseDigits(_, _, _)
ParseDigits(s, i, acc) ==
  IF i <= Len(s) /\ IsDigit(s[i])
  THEN ParseDigits(s, i + 1, acc * 10 + DigitVal(s[i]))
  ELSE ParseOk(Num(acc), i)

\* An integer without a sign: 0, or a digit 1-9 and more digits (fractions
\* and exponents are outside the model).
ParseNat(s, i) ==
  IF i > Len(s) \/ ~IsDigit(s[i]) THEN ParseFail
  ELSE IF s[i] = "0" THEN ParseOk(Num(0), i + 1)
  ELSE ParseDigits(s, i, 0)

RECURSIVE ParseValue(_, _), ParseElements(_, _, _), ParseMembers(_, _, _)
ParseValue(s, i0) ==
  LET i == SkipWs(s, i0) IN
  IF i > Len(s) THEN ParseFail
  ELSE CASE s[i] = "{" ->
              (LET j == SkipWs(s, i + 1) IN
               IF j <= Len(s) /\ s[j] = "}" THEN ParseOk(Obj(<<>>), j + 1)
               ELSE ParseMembers(s, j, <<>>))
         [] s[i] = "[" ->
              (LET j == SkipWs(s, i + 1) IN
               IF j <= Len(s) /\ s[j] = "]" THEN ParseOk(Arr(<<>>), j + 1)
               ELSE ParseElements(s, j, <<>>))
         [] s[i] = Quote ->
              (IF i + 2 <= Len(s) /\ s[i + 2] = Quote /\ s[i + 1] # Quote
               THEN ParseOk(Str(s[i + 1]), i + 3) ELSE ParseFail)
         [] Matches(s, i, NullChars) -> ParseOk(Null, i + 4)
         [] Matches(s, i, TrueChars) -> ParseOk(Bool(TRUE), i + 4)
         [] Matches(s, i, FalseChars) -> ParseOk(Bool(FALSE), i + 5)
         [] s[i] = "-" ->
              (LET r == ParseNat(s, i + 1) IN
               IF r.ok THEN ParseOk(Num(0 - r.val.n), r.next) ELSE ParseFail)
         [] IsDigit(s[i]) -> ParseNat(s, i)
         [] OTHER -> ParseFail

\* The elements of an array after its "[", acc holding those read so far.
ParseElements(s, i, acc) ==
  LET r == ParseValue(s, i) IN
  IF ~r.ok THEN ParseFail
  ELSE LET j == SkipWs(s, r.next) IN
       IF j > Len(s) THEN ParseFail
       ELSE IF s[j] = "," THEN ParseElements(s, j + 1, Append(acc, r.val))
       ELSE IF s[j] = "]" THEN ParseOk(Arr(Append(acc, r.val)), j + 1)
       ELSE ParseFail

\* The members of an object after its "{": a repeated key keeps its first
\* place and takes its last value.
ParseMembers(s, i0, acc) ==
  LET i == SkipWs(s, i0) IN
  IF ~(i + 2 <= Len(s) /\ s[i] = Quote /\ s[i + 2] = Quote /\ s[i + 1] # Quote)
  THEN ParseFail
  ELSE LET c == SkipWs(s, i + 3) IN
       IF ~(c <= Len(s) /\ s[c] = ":") THEN ParseFail
       ELSE LET r == ParseValue(s, c + 1) IN
            IF ~r.ok THEN ParseFail
            ELSE LET j == SkipWs(s, r.next) IN
                 IF j > Len(s) THEN ParseFail
                 ELSE IF s[j] = ","
                   THEN ParseMembers(s, j + 1, SetKey(acc, s[i + 1], r.val))
                 ELSE IF s[j] = "}"
                   THEN ParseOk(Obj(SetKey(acc, s[i + 1], r.val)), j + 1)
                 ELSE ParseFail

\* JSON.parse(s): the value, or Throw for a SyntaxError.
JSONparse(s) ==
  LET r == ParseValue(s, 1) IN
  IF r.ok /\ SkipWs(s, r.next) = Len(s) + 1 THEN r.val ELSE Throw

(***************************************************************************)
(* geminiAdapter.js: the request translator                                *)
(***************************************************************************)
\* `k = d` in a destructuring pattern: the default replaces undefined only.
DefaultTo(x, d) == IF x = Undefined THEN d ELSE x

\* The names the destructuring pattern takes out of geminiRequest.
DestructuredKeys ==
  {"contents", "generationConfig", "systemInstruction", "safetySettings"}

\* idGenerator.js is not part of the sources: an opaque identifier.
generateRequestId == Str("request-id")

\* const mergedGenerationConfig = { topP: generationConfig.topP ?? ..., ...,
\*                                  ...generationConfig }
mergedGenerationConfig(generationConfig) ==
  IF Nullish(generationConfig) THEN Throw
  ELSE Obj(SetAll(
         << <<"topP", Coalesce(Get(generationConfig, "topP"), config.defaults.top_p)>>,
            <<"topK", Coalesce(Get(generationConfig, "topK"), config.defaults.top_k)>>,
            <<"temperature",
              Coalesce(Get(generationConfig, "temperature"), config.defaults.temperature)>>,
            <<"maxOutputTokens",
              Coalesce(Get(generationConfig, "maxOutputTokens"), config.defaults.max_tokens)>>,
            <<"candidateCount", Coalesce(Get(generationConfig, "candidateCount"), Num(1))>> >>,
         SpreadEntries(generationConfig)))

\* finalSystemInstruction with the fallback part of a request's own
\* systemInstruction built from '' instead of the configured text.
finalSystemInstruction_emptyFallback(systemInstruction) ==
  IF Truthy(systemInstruction)
  THEN Obj(<< <<"role", OrElse(Get(systemInstruction, "role"), Str("user"))>>,
              <<"parts",
                OrElse(Get(systemInstruction, "parts"),
                       Arr(<<Obj(<< <<"text", Str("")>> >>)>>))>> >>)
  ELSE IF Truthy(config.systemInstruction)
  THEN Obj(<< <<"role", Str("user")>>,
              <<"parts", Arr(<<Obj(<< <<"text", config.systemInstruction>> >>)>>)>> >>)
  ELSE Obj(<< <<"role", Str("user")>>,
              <<"parts", Arr(<<Obj(<< <<"text", Str("")>> >>)>>)>> >>)

\* let finalSystemInstruction; if (systemInstruction) ... else if ... else ...
finalSystemInstruction(systemInstruction) ==
  IF Truthy(systemInstruction)
  THEN Obj(<< <<"role", OrElse(Get(systemInstruction, "role"), Str("user"))>>,
              <<"parts",
                OrElse(Get(systemInstruction, "parts"),
                       Arr(<<Obj(<< <<"text",
                                      OrElse(config.systemInstruction, Str(""))>> >>)>>))>> >>)
  ELSE IF Truthy(config.systemInstruction)
  THEN Obj(<< <<"role", Str("user")>>,
              <<"parts", Arr(<<Obj(<< <<"text", config.systemInstruction>> >>)>>)>> >>)
  ELSE Obj(<< <<"role", Str("user")>>,
              <<"parts", Arr(<<Obj(<< <<"text", Str("")>> >>)>>)>> >>)

\* The `request` object of the result: the four resolved fields, then
\* `...rest`.
requestObject(contents, generationConfig, systemInstruction, token, rest) ==
  Obj(SetAll(
    << <<"contents", contents>>,
       <<"systemInstruction", finalSystemInstruction(systemInstruction)>>,
       <<"generationConfig", mergedGenerationConfig(generationConfig)>>,
       <<"sessionId", Get(token, "sessionId")>> >>,
    rest))

\* export function convertGeminiToAntigravity(model, geminiRequest, token)
convertGeminiToAntigravity(model, geminiRequest, token) ==
  IF Nullish(geminiRequest) THEN Throw
  ELSE LET contents == DefaultTo(Get(geminiRequest, "contents"), Arr(<<>>))
           generationConfig ==
             DefaultTo(Get(geminiRequest, "generationConfig"), Obj(<<>>))
           systemInstruction == Get(geminiRequest, "systemInstruction")
           rest == Without(SpreadEntries(geminiRequest), DestructuredKeys)
       IN IF mergedGenerationConfig(generationConfig) = Throw \/ Nullish(token)
          THEN Throw
          ELSE Obj(<< <<"project", Get(token, "projectId")>>,
                      <<"requestId", generateRequestId>>,
                      <<"request",
                        requestObject(contents, generationConfig,
                                      systemInstruction, token, rest)>>,
                      <<"model", model>>,
                      <<"userAgent", Str("antigravity")>> >>)

(***************************************************************************)
(* geminiAdapter.js: the sanitizer and the response translator             *)
(***************************************************************************)
\* function sanitizePart(part)
sanitizePart(part) ==
  IF ~Truthy(part) \/ ~TypeofObject(part) THEN part
  ELSE Obj(Without(SpreadEntries(part), {"thoughtSignature"}))

\* sanitizeCandidate without its first line, the guard that returns what
\* is no object.
sanitizeCandidate_noGuard(candidate, index) ==
  LET copy == SpreadEntries(candidate)
      indexed == IF Get(Obj(copy), "index") = Undefined
                 THEN SetKey(copy, "index", Num(index))
                 ELSE copy
      content == Get(Obj(indexed), "content")
  IN IF Truthy(content) /\ IsArray(Get(content, "parts"))
     THEN Obj(SetKey(indexed, "content",
            Obj(SetKey(SpreadEntries(content), "parts",
              Arr([i \in 1..Len(Get(content, "parts").a) |->
                     sanitizePart(Get(content, "parts").a[i])])))))
     ELSE Obj(indexed)

\* function sanitizeCandidate(candidate, index)
sanitizeCandidate(candidate, index) ==
  IF ~Truthy(candidate) \/ ~TypeofObject(candidate) THEN candidate
  ELSE LET copy == SpreadEntries(candidate)
           indexed == IF Get(Obj(copy), "index") = Undefined
                      THEN SetKey(copy, "index", Num(index))
                      ELSE copy
           content == Get(Obj(indexed), "content")
       IN IF Truthy(content) /\ IsArray(Get(content, "parts"))
          THEN Obj(SetKey(indexed, "content",
                 Obj(SetKey(SpreadEntries(content), "parts",
                   Arr([i \in 1..Len(Get(content, "parts").a) |->
                          sanitizePart(Get(content, "parts").a[i])])))))
          ELSE Obj(indexed)

\* candidates.map((candidate, idx) => sanitizeCandidate(candidate, idx))
sanitizeCandidates(candidates) ==
  Arr([i \in 1..Len(candidates.a) |-> sanitizeCandidate(candidates.a[i], i - 1)])

\* export function extractGeminiResponse(antigravityResponse)
extractGeminiResponse(antigravityResponse) ==
  LET response ==
        IF Truthy(antigravityResponse) /\ Truthy(Get(antigravityResponse, "response"))
        THEN Get(antigravityResponse, "response")
        ELSE antigravityResponse
  IN IF ~Truthy(response) \/ ~IsArray(Get(response, "candidates"))
     THEN response
     ELSE Obj(SetKey(SpreadEntries(response), "candidates",
                     sanitizeCandidates(Get(response, "candidates"))))

DataPrefix == <<"d", "a", "t", "a", ":", " ">>

\* line.startsWith('data: ')
StartsWithData(line) == Len(line.c) >= 6 /\ SubSeq(line.c, 1, 6) = DataPrefix

\* line.slice(6)
Slice6(line) == SubSeq(line.c, 7, Len(line.c))

\* transformStreamLine returning null from its catch block, as its JSDoc
\* has it, instead of the line.
transformStreamLine_nullOnFailure(line) ==
  IF ~StartsWithData(line) THEN line
  ELSE LET data == JSONparse(Slice6(line)) IN
       IF data = Throw \/ Get(data, "response") = Throw THEN Null
       ELSE LET unwrapped == IF Truthy(Get(data, "response"))
                             THEN Get(data, "response") ELSE data
                candidates == Get(unwrapped, "candidates")
                geminiData ==
                  IF Truthy(candidates) /\ IsArray(candidates)
                  THEN Obj(SetKey(SpreadEntries(unwrapped), "candidates",
                                  sanitizeCandidates(candidates)))
                  ELSE unwrapped
            IN Text(DataPrefix \o JSONstringify(geminiData))

\* transformStreamLine numbering the candidates from a counter kept across
\* calls (the number of lines transformed so far) instead of from 0.
transformStreamLine_sharedCounter(line) ==
  IF ~StartsWithData(line) THEN line
  ELSE LET data == JSONparse(Slice6(line)) IN
       IF data = Throw \/ Get(data, "response") = Throw THEN line
       ELSE LET unwrapped == IF Truthy(Get(data, "response"))
                             THEN Get(data, "response") ELSE data
                candidates == Get(unwrapped, "candidates")
                counter == Len(fed["s1"]) + Len(fed["s2"])
                geminiData ==
                  IF Truthy(candidates) /\ IsArray(candidates)
                  THEN Obj(SetKey(SpreadEntries(unwrapped), "candidates",
                         Arr([i \in 1..Len(candidates.a) |->
                                sanitizeCandidate(candidates.a[i], counter + i - 1)])))
                  ELSE unwrapped
            IN Text(DataPrefix \o JSONstringify(geminiData))

\* export function transformStreamLine(line): any exception of the try
\* block (the SyntaxError of JSON.parse, the TypeError of reading a property
\* of null) returns the line.
transformStreamLine(line) ==
  IF ~StartsWithData(line) THEN line
  ELSE LET data == JSONparse(Slice6(line)) IN
       IF data = Throw \/ Get(data, "response") = Throw THEN line
       ELSE LET unwrapped == IF Truthy(Get(data, "response"))
                             THEN Get(data, "response") ELSE data
                candidates == Get(unwrapped, "candidates")
                geminiData ==
                  IF Truthy(candidates) /\ IsArray(candidates)
                  THEN Obj(SetKey(SpreadEntries(unwrapped), "candidates",
                                  sanitizeCandidates(candidates)))
                  ELSE unwrapped
            IN Text(DataPrefix \o JSONstringify(geminiData))

(***************************************************************************)
(* logger.js, lines 142-202: the copy of the response translator that      *)
(* module exports                                                          *)
(***************************************************************************)
\* export function extractGeminiResponse(antigravityResponse)   (logger.js)
extractGeminiResponse_logger(antigravityResponse) ==
  IF Truthy(antigravityResponse) /\ Truthy(Get(antigravityResponse, "response"))
  THEN Get(antigravityResponse, "response")
  ELSE antigravityResponse

\* (candidate, idx) => candidate.index === undefined
\*                       ? { ...candidate, index: idx } : candidate
indexCandidate_logger(candidate, idx) ==
  IF Nullish(candidate) THEN Throw
  ELSE IF Get(candidate, "index") = Undefined
  THEN Obj(SetKey(SpreadEntries(candidate), "index", Num(idx)))
  ELSE candidate

\* export function transformStreamLine(line)                    (logger.js)
transformStreamLine_logger(line) ==
  IF ~StartsWithData(line) THEN line
  ELSE LET data == JSONparse(Slice6(line)) IN
       IF data = Throw \/ Get(data, "response") = Throw THEN line
       ELSE LET unwrapped == IF Truthy(Get(data, "response"))
                             THEN Get(data, "response") ELSE data
                candidates == Get(unwrapped, "candidates")
                mapped == [i \in 1..Len(candidates.a) |->
                             indexCandidate_logger(candidates.a[i], i - 1)]
            IN IF Truthy(candidates) /\ IsArray(candidates)
               THEN IF \E i \in 1..Len(mapped) : mapped[i] = Throw
                    THEN line
                    ELSE Text(DataPrefix \o JSONstringify(
                           Obj(SetKey(unwrapped.o, "candidates", Arr(mapped)))))
               ELSE Text(DataPrefix \o JSONstringify(unwrapped))

(***************************************************************************)
(* Inputs                                                                  *)
(***************************************************************************)
MaxCandidates == 2
MaxStreamLines == 2

Absent == [t |-> "absent"]

RECURSIVE Present(_)
\* The pairs whose value is not Absent: an object literal of the caller
\* that leaves those keys out.
Present(p) ==
  IF p = <<>> THEN <<>>
  ELSE IF p[1][2] = Absent THEN Present(Tail(p))
  ELSE <<p[1]>> \o Present(Tail(p))

SeqsUpTo(S, n) == UNION {[1..k -> S] : k \in 0..n}

PartSigned == Obj(<< <<"text", Str("hi")>>, <<"thoughtSignature", Str("z")>> >>)
PartPlain == Obj(<< <<"text", Str("a")>> >>)

\* The candidates a JSON document can carry.
JsonCandidates ==
  { Obj(<< <<"content", Obj(<< <<"parts", Arr(<<PartSigned>>)>> >>)>> >>),
    Obj(<< <<"index", Num(3)>>,
           <<"content", Obj(<< <<"role", Str("model")>>,
                               <<"parts", Arr(<<PartPlain, PartSigned>>)>> >>)>>,
           <<"finishReason", Str("STOP")>> >>),
    Obj(<< <<"index", Null>>,
           <<"content", Obj(<< <<"parts", Arr(<<Str("raw"), Null, PartSigned>>)>> >>)>> >>),
    Null,
    Obj(<< <<"finishReason", Str("STOP")>> >>),
    Obj(<< <<"content", Obj(<< <<"parts", Str("none")>> >>)>> >>),
    Num(7),
    Arr(<<PartSigned>>) }

\* The values sanitizeCandidate can be called with: also those no JSON
\* text yields.
CandidateValues ==
  JsonCandidates \cup
  { Undefined, Bool(FALSE), Str("text"),
    Obj(<< <<"index", Undefined>>, <<"content", Null>> >>),
    Obj(<< <<"index", Num(0)>>, <<"content", Arr(<<PartSigned>>)>> >>),
    Obj(<< <<"content", Obj(<< <<"parts", Arr(<<Arr(<<Str("x")>>), Num(1)>>)>> >>)>>,
           <<"index", Str("first")>> >>) }

UsageMetadata == Obj(<< <<"totalTokenCount", Num(12)>> >>)

\* Payloads with a `candidates` array.
CandidatePayloads ==
  { Obj(<< <<"candidates", Arr(cs)>>, <<"usageMetadata", UsageMetadata>> >>) :
      cs \in SeqsUpTo(JsonCandidates, MaxCandidates) }

\* Payloads without one.
OtherPayloads ==
  { Obj(<<>>),
    Obj(<< <<"usageMetadata", UsageMetadata>> >>),
    Obj(<< <<"error", Obj(<< <<"code", Num(429)>> >>)>> >>),
    Obj(<< <<"candidates", Str("none")>> >>),
    Obj(<< <<"candidates", Null>>, <<"modelVersion", Str("v1")>> >>) }

Payloads == CandidatePayloads \cup OtherPayloads

FalsyValues == {Null, Str(""), Num(0), Bool(FALSE)}

\* The JSON documents: bare payloads, enveloped payloads, envelopes whose
\* `response` is falsy or a scalar, and documents that are no object.
Docs ==
  Payloads
  \cup { Obj(<< <<"response", p>> >>) : p \in Payloads }
  \cup { Obj(<< <<"response", f>> >>) : f \in FalsyValues }
  \cup { Obj(<< <<"response", f>>,
                <<"candidates",
                  Arr(<<Obj(<< <<"content",
                                 Obj(<< <<"parts", Arr(<<PartSigned>>)>> >>)>> >>)>>)>> >>) :
           f \in FalsyValues }
  \cup { Obj(<< <<"response", Num(5)>> >>), Obj(<< <<"response", Str("ok")>> >>),
         Obj(<< <<"response", Arr(<<PartSigned>>)>>, <<"traceId", Str("t1")>> >>) }
  \cup { Null, Num(5), Num(0), Str("ok"), Bool(TRUE), Arr(<<>>),
         Arr(<<Obj(<< <<"response", PartPlain>> >>)>>) }

\* The SSE line of a document.
LineOf(d) == Text(DataPrefix \o JSONstringify(d))

\* Lines that are no `data: <JSON>` line, and two that are one with white
\* space or a repeated key in the JSON text.
RawTexts ==
  { <<>>,
    <<"n", "o", "t", " ", "a", " ", "d", "a", "t", "a", " ", "l", "i", "n", "e">>,
    <<":", " ", "p", "i", "n", "g">>,
    <<"e", "v", "e", "n", "t", ":", " ", "m", "e", "s", "s", "a", "g", "e">>,
    <<"d", "a", "t", "a", ":">>,
    <<"d", "a", "t", "a", ":", "{", "}">>,
    <<"D", "a", "t", "a", ":", " ", "{", "}">>,
    <<" ", "d", "a", "t", "a", ":", " ", "{", "}">>,
    DataPrefix,
    DataPrefix \o <<"[", "D", "O", "N", "E", "]">>,
    DataPrefix \o <<"{", "n", "o", "t", " ", "j", "s", "o", "n">>,
    DataPrefix \o <<"{", Quote, "response", Quote, ":", "{", "}">>,
    DataPrefix \o <<"{", "}", "{", "}">>,
    DataPrefix \o <<"[", "1", ",", "]">>,
    DataPrefix \o <<"0", "1">>,
    DataPrefix \o <<"n", "u", "l">>,
    DataPrefix \o <<"{", Quote, "a", ":", "1", "}">>,
    DataPrefix \o <<" ", "{", " ", Quote, "response", Quote, " ", ":", " ",
                    "n", "u", "l", "l", " ", "}", " ">>,
    DataPrefix \o <<"{", Quote, "response", Quote, ":", "0", ",",
                    Quote, "response", Quote, ":", "{", Quote, "candidates", Quote,
                    ":", "[", "{", "}", ",", "-", "1", "2", "]", "}", "}">> }

RawLines == {Text(c) : c \in RawTexts}

Lines == {LineOf(d) : d \in Docs} \cup RawLines

\* The configuration module's object: the four defaults and the default
\* instruction text (set, empty or absent).
Defaults ==
  [top_p |-> Num(1), top_k |-> Num(50), temperature |-> Num(2), max_tokens |-> Num(8096)]

Configs ==
  { [defaults |-> Defaults, systemInstruction |-> si] :
      si \in {Undefined, Str(""), Str("Be brief")} }

Models == {Str("gemini-pro"), Str("gemini-flash")}

Tokens ==
  { Obj(<< <<"projectId", Str("proj-1")>>, <<"sessionId", Str("sess-1")>> >>),
    Obj(<< <<"projectId", Str("proj-1")>> >>),
    Obj(<<>>) }

ContentsValues ==
  {Absent, Null, Arr(<<Obj(<< <<"role", Str("user")>>, <<"parts", Arr(<<PartPlain>>)>> >>)>>)}

GenerationConfigValues ==
  { Absent, Null, Obj(<<>>),
    Obj(<< <<"temperature", Num(5)>> >>),
    Obj(<< <<"temperature", Null>> >>),
    Obj(<< <<"topK", Num(7)>>, <<"stopSequences", Arr(<<Str("END")>>)>> >>),
    Obj(<< <<"topP", Undefined>>, <<"candidateCount", Num(2)>>,
           <<"maxOutputTokens", Num(0)>> >>) }

SystemInstructionValues ==
  { Absent, Null,
    Obj(<< <<"role", Str("model")>>, <<"parts", Arr(<<Obj(<< <<"text", Str("Be terse")>> >>)>>)>> >>),
    Obj(<< <<"parts", Arr(<<PartPlain>>)>> >>),
    Obj(<< <<"role", Str("system")>> >>),
    Obj(<< <<"role", Str("")>>, <<"parts", Arr(<<>>)>> >>),
    Obj(<< <<"role", Null>>, <<"parts", Null>> >>) }

SafetySettingsValues ==
  {Absent, Null, Arr(<<Obj(<< <<"category", Str("HARM")>> >>)>>)}

RestValues ==
  { <<>>,
    << <<"tools", Arr(<<>>)>> >>,
    << <<"toolConfig", Null>>, <<"sessionId", Str("client-session")>> >> }

GeminiRequests ==
  { Obj(Present(<< <<"contents", c>>, <<"generationConfig", g>>,
                   <<"systemInstruction", si>>, <<"safetySettings", ss>> >>) \o r) :
      c \in ContentsValues, g \in GenerationConfigValues,
      si \in SystemInstructionValues, ss \in SafetySettingsValues, r \in RestValues }

Streams == {"s1", "s2"}

\* The lines fed to the streams.
StreamLines ==
  { LineOf(Obj(<< <<"response",
                    Obj(<< <<"candidates",
                             Arr(<<Obj(<< <<"content",
                                            Obj(<< <<"parts", Arr(<<PartSigned>>)>> >>)>> >>),
                                   Obj(<< <<"index", Num(3)>> >>)>>)>> >>)>> >>)),
    LineOf(Obj(<< <<"candidates", Arr(<<Null, Obj(<<>>)>>)>> >>)),
    Text(DataPrefix \o <<"[", "D", "O", "N", "E", "]">>),
    Text(<<":", " ", "p", "i", "n", "g">>) }

Inputs ==
  { [op |-> "convertGeminiToAntigravity", model |-> m, geminiRequest |-> r, token |-> t] :
      m \in Models, r \in GeminiRequests, t \in Tokens }
  \cup { [op |-> "sanitizeCandidate", candidate |-> c, index |-> i] :
           c \in CandidateValues, i \in 0..MaxCandidates }
  \cup { [op |-> "extractGeminiResponse", antigravityResponse |-> d] : d \in Docs }
  \cup { [op |-> "transformStreamLine", line |-> l] : l \in Lines }
  \cup { [op |-> "extractGeminiResponse_logger", antigravityResponse |-> d] : d \in Docs }
  \cup { [op |-> "transformStreamLine_logger", line |-> l] : l \in Lines }

(***************************************************************************)
(* The calls                                                               *)
(***************************************************************************)
Init ==
  /\ config \in Configs
  /\ input \in Inputs
  /\ result = Undefined
  /\ pc = "ready"
  /\ fed = [s \in Streams |-> <<>>]
  /\ emitted = [s \in Streams |-> <<>>]

Return(value) ==
  /\ result' = value
  /\ pc' = "done"
  /\ UNCHANGED <<config, input, fed, emitted>>

ConvertGeminiToAntigravity ==
  /\ pc = "ready"
  /\ input.op = "convertGeminiToAntigravity"
  /\ Return(convertGeminiToAntigravity(input.model, input.geminiRequest, input.token))

SanitizeCandidate ==
  /\ pc = "ready"
  /\ input.op = "sanitizeCandidate"
  /\ Return(sanitizeCandidate(input.candidate, input.index))

ExtractGeminiResponse ==
  /\ pc = "ready"
  /\ input.op = "extractGeminiResponse"
  /\ Return(extractGeminiResponse(input.antigravityResponse))

TransformStreamLine ==
  /\ pc = "ready"
  /\ input.op = "transformStreamLine"
  /\ Return(transformStreamLine(input.line))

ExtractGeminiResponseLogger ==
  /\ pc = "ready"
  /\ input.op = "extractGeminiResponse_logger"
  /\ Return(extractGeminiResponse_logger(input.antigravityResponse))

TransformStreamLineLogger ==
  /\ pc = "ready"
  /\ input.op = "transformStreamLine_logger"
  /\ Return(transformStreamLine_logger(input.line))

Next ==
  \/ ConvertGeminiToAntigravity
  \/ SanitizeCandidate
  \/ ExtractGeminiResponse
  \/ TransformStreamLine
  \/ ExtractGeminiResponseLogger
  \/ TransformStreamLineLogger

Spec == Init /\ [][Next]_vars

(***************************************************************************)
(* Several streams, their lines fed to transformStreamLine in any          *)
(* interleaving                                                            *)
(***************************************************************************)
StreamInit ==
  /\ config \in Configs
  /\ input = [op |-> "none"]
  /\ result = Undefined
  /\ pc = "streaming"
  /\ fed = [s \in Streams |-> <<>>]
  /\ emitted = [s \in Streams |-> <<>>]

\* The caller of stream s hands its next line to transformStreamLine and
\* keeps what it returns.
FeedLine(s, line) ==
  /\ pc = "streaming"
  /\ Len(fed[s]) < MaxStreamLines
  /\ fed' = [fed EXCEPT ![s] = Append(@, line)]
  /\ emitted' = [emitted EXCEPT ![s] = Append(@, transformStreamLine(line))]
  /\ UNCHANGED <<config, input, result, pc>>

StreamNext == \E s \in Streams, line \in StreamLines : FeedLine(s, line)

StreamSpec == StreamInit /\ [][StreamNext]_vars

(***************************************************************************)
(* Vocabulary of the properties                                            *)
(***************************************************************************)
Done(op) == pc = "done" /\ input.op = op

\* x is an object with a `candidates` array.
HasCandidates(x) == IsObj(x) /\ IsArray(Get(x, "candidates"))

\* d is a payload with a `candidates` array, or an envelope of one.
CarriesCandidates(d) ==
  \/ HasCandidates(d) /\ ~HasKey(d.o, "response")
  \/ IsObj(d) /\ HasCandidates(Get(d, "response"))

HasIntegerIndex(c) == IsObj(c) /\ Get(c, "index").t = "num"

\* No element of c's content.parts has a thoughtSignature key.
KeepsNoSignature(c) ==
  LET content == IF IsObj(c) THEN Get(c, "content") ELSE Undefined
      parts == IF IsObj(content) THEN Get(content, "parts") ELSE Undefined
  IN IsArray(parts) =>
       \A i \in 1..Len(parts.a) :
         ~(IsObj(parts.a[i]) /\ HasKey(parts.a[i].o, "thoughtSignature"))

SanitizedPayload(out) ==
  /\ HasCandidates(out)
  /\ \A i \in 1..Len(Get(out, "candidates").a) :
       /\ HasIntegerIndex(Get(out, "candidates").a[i])
       /\ KeepsNoSignature(Get(out, "candidates").a[i])

RECURSIVE Canon(_)
\* A value up to the order of its objects' keys.
Canon(x) ==
  CASE x.t = "obj" -> [t |-> "obj", o |-> [k \in Keys(x.o) |-> Canon(Lookup(x.o, k))]]
    [] x.t = "arr" -> [t |-> "arr", a |-> [i \in 1..Len(x.a) |-> Canon(x.a[i])]]
    [] OTHER -> x

\* Two lines with the same JSON content.
ContentEq(a, b) ==
  \/ a = b
  \/ /\ a.t = "text" /\ b.t = "text"
     /\ StartsWithData(a) /\ StartsWithData(b)
     /\ JSONparse(Slice6(a)) # Throw /\ JSONparse(Slice6(b)) # Throw
     /\ Canon(JSONparse(Slice6(a))) = Canon(JSONparse(Slice6(b)))

\* The payload of d when the envelope is resolved by the presence of the
\* `response` key.
PayloadByKey(d) == IF IsObj(d) /\ HasKey(d.o, "response") THEN Get(d, "response") ELSE d

\* out is payload, but for the values of its `candidates`.
SameButCandidates(out, payload) ==
  /\ HasCandidates(out)
  /\ Len(Get(out, "candidates").a) = Len(Get(payload, "candidates").a)
  /\ Without(out.o, {"candidates"}) = Without(payload.o, {"candidates"})

NamedFields == {"topP", "topK", "temperature", "maxOutputTokens", "candidateCount"}

\* The configured default of a named field; the literal 1 for candidateCount.
FieldDefault(f) ==
  CASE f = "topP" -> config.defaults.top_p
    [] f = "topK" -> config.defaults.top_k
    [] f = "temperature" -> config.defaults.temperature
    [] f = "maxOutputTokens" -> config.defaults.max_tokens
    [] f = "candidateCount" -> Num(1)

\* The generationConfig the request supplies; the empty one when it
\* supplies none.
SuppliedConfig(req) ==
  IF IsObj(Get(req, "generationConfig")) THEN Get(req, "generationConfig") ELSE Obj(<<>>)

\* The systemInstruction field f the request supplies, undefined when it
\* supplies no systemInstruction or one without f.
SuppliedInstruction(req, f) ==
  IF IsObj(Get(req, "systemInstruction"))
  THEN Get(Get(req, "systemInstruction"), f) ELSE Undefined

ConfiguredText == IF config.systemInstruction.t = "str" THEN config.systemInstruction ELSE Str("")

IsInstructionShape(si) ==
  /\ IsObj(si) /\ Keys(si.o) = {"role", "parts"}
  /\ Get(si, "role").t = "str"
  /\ IsArray(Get(si, "parts"))
  /\ \A i \in 1..Len(Get(si, "parts").a) :
       /\ IsObj(Get(si, "parts").a[i])
       /\ Get(Get(si, "parts").a[i], "text").t = "str"

\* The text after `data: ` is no JSON document, or the line has no such
\* prefix.
PassthroughCase(line) == ~StartsWithData(line) \/ JSONparse(Slice6(line)) = Throw

(***************************************************************************)
(* The properties                                                          *)
(***************************************************************************)
\* C1: whenever the payload of a response, or of a `data: ` line, has a
\* candidates array, every candidate of the output of extractGeminiResponse
\* and of transformStreamLine (either module's) is an object with an integer
\* index, and none of its content.parts has a thoughtSignature key.
C1_EveryCandidateSanitized ==
  /\ ( /\ pc = "done"
       /\ input.op \in {"extractGeminiResponse", "extractGeminiResponse_logger"}
       /\ CarriesCandidates(input.antigravityResponse) )
     => SanitizedPayload(result)
  /\ ( /\ pc = "done"
       /\ input.op \in {"transformStreamLine", "transformStreamLine_logger"}
       /\ StartsWithData(input.line)
       /\ CarriesCandidates(JSONparse(Slice6(input.line))) )
     => /\ StartsWithData(result)
        /\ SanitizedPayload(JSONparse(Slice6(result)))

\* C2: the output of convertGeminiToAntigravity has project = token.projectId,
\* request.sessionId = token.sessionId, model = the model argument and
\* userAgent = 'antigravity', whatever fields the request carries.
C2_IdentityFromToken ==
  (Done("convertGeminiToAntigravity") /\ result # Throw) =>
    /\ Get(result, "project") = Get(input.token, "projectId")
    /\ Get(Get(result, "request"), "sessionId") = Get(input.token, "sessionId")
    /\ Get(result, "model") = input.model
    /\ Get(result, "userAgent") = Str("antigravity")

\* C3: each of the five named fields of the produced generationConfig is the
\* request's value when the request gives it a value other than null and
\* undefined, and its default otherwise.
C3_FieldsResolvedIndependently ==
  (Done("convertGeminiToAntigravity") /\ result # Throw) =>
    \A f \in NamedFields :
      Get(Get(Get(result, "request"), "generationConfig"), f)
        = IF Nullish(Get(SuppliedConfig(input.geminiRequest), f))
          THEN FieldDefault(f)
          ELSE Get(SuppliedConfig(input.geminiRequest), f)

\* C4: the produced request.systemInstruction is {role, parts}, role a
\* string and parts a sequence of {text: string}: role is the role the
\* request's systemInstruction has, else "user"; parts is the parts it has,
\* else one part holding the configured default text ("" when unset).
C4_SystemInstructionNormalized ==
  (Done("convertGeminiToAntigravity") /\ result # Throw) =>
    LET si == Get(Get(result, "request"), "systemInstruction")
        role == SuppliedInstruction(input.geminiRequest, "role")
        parts == SuppliedInstruction(input.geminiRequest, "parts")
    IN /\ IsInstructionShape(si)
       /\ Get(si, "role") = IF role.t = "str" /\ role.s # "" THEN role ELSE Str("user")
       /\ Get(si, "parts") = IF IsArray(parts) THEN parts
                             ELSE Arr(<<Obj(<< <<"text", ConfiguredText>> >>)>>)
       /\ ( /\ ~HasKey(input.geminiRequest.o, "systemInstruction")
            /\ config.systemInstruction = Undefined )
          => si = Obj(<< <<"role", Str("user")>>,
                         <<"parts", Arr(<<Obj(<< <<"text", Str("")>> >>)>>)>> >>)

\* A request without systemInstruction, no configured text: the call has
\* returned the empty instruction.
C4_Witness ==
  /\ Done("convertGeminiToAntigravity")
  /\ ~HasKey(input.geminiRequest.o, "systemInstruction")
  /\ config.systemInstruction = Undefined
  /\ result # Throw
  /\ Get(Get(result, "request"), "systemInstruction")
       = Obj(<< <<"role", Str("user")>>,
                <<"parts", Arr(<<Obj(<< <<"text", Str("")>> >>)>>)>> >>)

\* C5: convertGeminiToAntigravity raises no error, and request.contents,
\* request.systemInstruction and request.generationConfig of what it returns
\* are populated.
C5_NeverThrows ==
  Done("convertGeminiToAntigravity") =>
    /\ result # Throw
    /\ IsArray(Get(Get(result, "request"), "contents"))
    /\ IsObj(Get(Get(result, "request"), "systemInstruction"))
    /\ IsObj(Get(Get(result, "request"), "generationConfig"))

C7_EnvelopeByPresence ==
  /\ Done("extractGeminiResponse") =>
       LET payload == PayloadByKey(input.antigravityResponse) IN
       IF HasCandidates(payload) THEN SameButCandidates(result, payload)
       ELSE result = payload
  /\ Done("transformStreamLine") =>
       \A d \in Docs :
         (input.line = LineOf(d) /\ ~HasCandidates(PayloadByKey(d)))
           => ContentEq(result, LineOf(PayloadByKey(d)))

\* C8: sanitizeCandidate applied to its own result, at the same index,
\* returns that result; applied to a value that is no object it returns the
\* value.
C8_SanitizeIdempotent ==
  Done("sanitizeCandidate") =>
    /\ sanitizeCandidate(result, input.index) = result
    /\ input.candidate.t \notin {"obj", "arr"} => result = input.candidate

\* A candidate without index whose part carries a thoughtSignature has been
\* sanitized: the result differs from it.
C8_Witness ==
  /\ Done("sanitizeCandidate")
  /\ input.candidate = Obj(<< <<"content", Obj(<< <<"parts", Arr(<<PartSigned>>)>> >>)>> >>)
  /\ input.index = 2
  /\ result = Obj(<< <<"content", Obj(<< <<"parts", Arr(<<Obj(<< <<"text", Str("hi")>> >>)>>)>> >>)>>,
                     <<"index", Num(2)>> >>)

\* C9: for every JSON document d, transformStreamLine("data: " + serialize(d))
\* has the JSON content of "data: " + serialize(extractGeminiResponse(d)), in
\* each module that exports the two functions.
C9_StreamEqualsWhole ==
  /\ Done("transformStreamLine") =>
       \A d \in Docs :
         input.line = LineOf(d) => ContentEq(result, LineOf(extractGeminiResponse(d)))
  /\ Done("transformStreamLine_logger") =>
       \A d \in Docs :
         input.line = LineOf(d) => ContentEq(result, LineOf(extractGeminiResponse_logger(d)))

\* Of geminiAdapter.js alone: the streaming path and the whole-response path
\* agree, text for text, on every document.
Adapter_StreamEqualsWhole ==
  Done("transformStreamLine") =>
    \A d \in Docs :
      input.line = LineOf(d) => result = LineOf(extractGeminiResponse(d))

\* Of geminiAdapter.js alone: in the output of extractGeminiResponse every
\* candidate that is an object has an `index` key, no object among its
\* content.parts has a thoughtSignature key, and a candidate that is no
\* object is the input's.
Adapter_ObjectCandidatesSanitized ==
  (Done("extractGeminiResponse") /\ CarriesCandidates(input.antigravityResponse)) =>
    /\ HasCandidates(result)
    /\ \A i \in 1..Len(Get(result, "candidates").a) :
         LET c == Get(result, "candidates").a[i] IN
         /\ KeepsNoSignature(c)
         /\ IsObj(c) => HasKey(c.o, "index")
         /\ ~IsObj(c) =>
              \E p \in {input.antigravityResponse, Get(input.antigravityResponse, "response")} :
                HasCandidates(p) /\ Get(p, "candidates").a[i] = c

=============================================================================
